---- MODULE Spec2Model ----
(***************************************************************************)
(* Model of the LLM screening run of src/filter_papers_gemini.py:          *)
(* process -> get_filtered_data -> (build_prompt, call_model,              *)
(* extract_json_array, reconcile loop) -> finalization -> report.          *)
(* A run starts either at filter_papers_gemini() (the screening script) or  *)
(* at merge_folder() of src/clean_data.py (the cleaning script).           *)
(***************************************************************************)
EXTENDS Integers, Sequences, FiniteSets, TLC

\* ---------------------------------------------------------------- bounds
MaxRows == 3
MaxBatch == 2
MaxEntries == 2
MaxMerged == 3

\* ------------------------------------------------------ program constants
MAX_RETRIES == 3
RATE_LIMIT_COOLDOWN == 60

\* ------------------------------------------------------------ value space
NaN == "<NaN>"          \* pandas missing value / absent cell
None == "<None>"        \* Python None (missing key read through .get, JSON null)
NoKey == "<no key>"     \* the key is not present in the JSON object

Range(f) == { f[k] : k \in DOMAIN f }

\* Headers of cleaned.csv: one with both a "... title" and a "Title" column,
\* one without any title column.
ColumnSets ==
  { << "DOI", "Document title", "Title", "Abstract" >>,
    << "DOI", "Abstract" >> }

\* The k-th record of the dataset: distinct cells, every second abstract missing.
Record(k, cols) ==
  [ c \in Range(cols) |->
      IF c = "Abstract" /\ k % 2 = 0 THEN NaN ELSE << c, k >> ]

Dataset(L, cols) == [ k \in 1..L |-> Record(k, cols) ]

\* DOI cells of the merged raw exports
DOIVals == { NaN, "10.1/a", "10.1/A", "10.1/B" }

\* An exception text is classified by the markers it contains.
ErrorVals == [has429 : BOOLEAN, has503 : BOOLEAN]

\* Entries a model response may carry (JSON objects of the parsed array).
\* The JSON value under "index": a number, or null / key absent (.get gives None).
JInt(i) == [kind |-> "int", val |-> i]
JNull == [kind |-> "null", val |-> 0]

EntryVals ==
  { [index |-> JInt(i), TEST |-> "INCLUDE", REASON |-> NoKey] : i \in 0..(MaxRows - 1) }
  \cup
  { [index |-> JInt(i), TEST |-> "EXCLUDE", REASON |-> "TOPIC"] : i \in 0..(MaxRows - 1) }
  \cup
  { [index |-> JInt(0), TEST |-> "include", REASON |-> NoKey],
    [index |-> JInt(0), TEST |-> "INCLUDE", REASON |-> "TOPIC"],
    [index |-> JInt(0), TEST |-> "EXCLUDE", REASON |-> NoKey],
    [index |-> JInt(0), TEST |-> "EXCLUDE", REASON |-> "FOO"],
    [index |-> JInt(0), TEST |-> NoKey, REASON |-> "TOPIC"],
    [index |-> JInt(0), TEST |-> "MAYBE", REASON |-> "TOPIC"],
    [index |-> JNull, TEST |-> "EXCLUDE", REASON |-> "TOPIC"] }

SeqsUpTo(S, n) == UNION { [1..k -> S] : k \in 0..n }

\* A raw model text is prose, a body, prose.  The body is one of
\*   "nojson"  nothing,
\*   "badjson" a bracketed snippet [ ... ] that is not valid JSON,
\*   "object"  a JSON object { ... } without brackets inside,
\*   "array"   a JSON array [ ... ] of the given entries;
\* the prose is empty, "noise" (no bracket, no brace) or "ref" (prose that
\* contains a bracketed word such as [sic]).
Text(p, k, es, q) == [pre |-> p, kind |-> k, entries |-> es, post |-> q]

ProseVals == {"", "noise", "ref"}

\* bodies that are also tried with prose around them
WrappedBodies ==
  { << "nojson", << >> >>,
    << "object", << >> >>,
    << "array", << [index |-> JInt(0), TEST |-> "INCLUDE", REASON |-> NoKey] >> >> }

RawVals ==
  { Text("", "nojson", << >>, ""),
    Text("", "badjson", << >>, ""),
    Text("", "object", << >>, "") }
  \cup
  { Text("", "array", es, "") : es \in SeqsUpTo(EntryVals, MaxEntries) }
  \cup
  { Text(p, b[1], b[2], q) : p \in ProseVals, q \in ProseVals, b \in WrappedBodies }

NoRaw == Text("", "none", << >>, "")

VARIABLES
  rows,         \* df.to_dict(orient='records')
  batch_size,   \* batch_size argument
  pc,           \* position of the run
  start,        \* loop variable of get_filtered_data
  items,        \* items of the current batch
  sent,         \* payloads of the prompts built so far, in order
  attempt,      \* call_model: attempt counter
  errs,         \* call_model: exceptions caught in this invocation, in order
  waits,        \* call_model: time.sleep durations of this invocation, in order
  raw,          \* text returned by call_model
  parsed,       \* value returned by extract_json_array
  results,      \* ResultMap: index -> [TEST, REASON]
  failed,       \* get_filtered_data took the except branch (call_model raised)
  raised,       \* exception that escaped: what call_model raised / what left process
  out_rows,     \* finalized rows
  report,       \* what process wrote
  context,      \* filter_papers_gemini: context argument / text
  ctx_file_exists,  \* Path(DEFAULT_CONTEXT_FILE).exists()
  input_exists, \* input_csv.exists()
  columns,      \* df.columns
  title_col,    \* process: title_col
  abstract_col, \* process: abstract_col
  parts,        \* merge_folder: the rows of pd.concat(parts), in file order
  merged        \* merge_folder: the frame it returns

configVars == << context, ctx_file_exists, input_exists, columns, title_col, abstract_col >>
mergeVars == << parts, merged >>

vars == << rows, batch_size, pc, start, items, sent, attempt, errs, waits, raw,
           parsed, results, failed, raised, out_rows, report,
           context, ctx_file_exists, input_exists, columns, title_col, abstract_col,
           parts, merged >>

NoErrorText == [has429 |-> FALSE, has503 |-> FALSE]
NoError == [type |-> "none", err |-> NoErrorText]
\* an exception of call_model caught by get_filtered_data
ModelError(e) == [type |-> "Exception", err |-> e]
\* an exception that leaves process()
Uncaught(t) == [type |-> t, err |-> NoErrorText]
NoReport == [written |-> FALSE]
EmptyMap == [i \in {} |-> None]

\* ------------------------------------------------------------- build_prompt
\* str(r.get(col, "")): the column exists, so the cell is stringified.
Str(v) == IF v = NaN THEN "nan" ELSE v

\* rows[start:start+batch_size] (0-based, Python slice clamps at the end)
BatchRows(rs, st, B) ==
  SubSeq(rs, st + 1, IF st + B < Len(rs) THEN st + B ELSE Len(rs))

\* mutant: the index restarts at 0 in every batch
ItemIndexLocal(st, i) == i

ItemIndex(st, i) == st + i

MakeItems(rs, st, B, tc, ac) ==
  LET batch_rows == BatchRows(rs, st, B)
  IN  [ k \in 1..Len(batch_rows) |->
          [ index |-> ItemIndex(st, k - 1),
            title |-> Str(batch_rows[k][tc]),
            abstract |-> Str(batch_rows[k][ac]) ] ]

\* payload of build_prompt: one {index, title, abstract} object per item
build_prompt(its) ==
  [ k \in 1..Len(its) |->
      [index |-> its[k].index, title |-> its[k].title, abstract |-> its[k].abstract] ]

\* --------------------------------------------------------------- call_model
IsRateLimit(e) == e.has429
IsUnavailable(e) == e.has503

Pow2(n) == IF n = 0 THEN 1 ELSE IF n = 1 THEN 2 ELSE IF n = 2 THEN 4 ELSE 8

\* wait_time = 2 * (2 ** (attempt - 1)); at attempt 0 this is 2 * 0.5 = 1.0
Backoff(n) == IF n = 0 THEN 1 ELSE 2 * Pow2(n - 1)

\* mutant: the rate-limit wait follows the exponential backoff
SleepsForRateBackoff(e, n) ==
  IF IsRateLimit(e) THEN << RATE_LIMIT_COOLDOWN * Pow2(n) >>
  ELSE IF IsUnavailable(e) THEN << Backoff(n) >>
  ELSE << >>

\* mutant: every exception that is not a rate limit backs off
SleepsForAnyError(e, n) ==
  IF IsRateLimit(e) THEN << RATE_LIMIT_COOLDOWN >>
  ELSE << Backoff(n) >>

\* the sleeps performed by the except branch for exception e at attempt n
SleepsFor(e, n) ==
  IF IsRateLimit(e) THEN << RATE_LIMIT_COOLDOWN >>
  ELSE IF IsUnavailable(e) THEN << Backoff(n) >>
  ELSE << >>

RetriesExhausted(n) == n >= MAX_RETRIES

\* mutant: the first exception of the invocation is re-raised
RaisedFirstError(es) == es[1]

\* the exception re-raised by `raise e`
RaisedError(es) == es[Len(es)]

\* ------------------------------------------------------- extract_json_array
HasBrackets(prose) == prose = "ref"

\* re.search(r'\[.*\]', text, flags=re.DOTALL) finds something
ArrMatch(r) ==
  HasBrackets(r.pre) \/ r.kind \in {"array", "badjson"} \/ HasBrackets(r.post)

\* the match is greedy: it runs from the first '[' to the last ']' of the
\* text, so the snippet is the array only if no bracket stands outside it
SnippetIsArray(r) ==
  r.kind = "array" /\ ~HasBrackets(r.pre) /\ ~HasBrackets(r.post)

\* re.search(r'\{.*\}', ...), tried only without an array match
ObjMatch(r) == ~ArrMatch(r) /\ r.kind = "object"

\* neither `raise ValueError("No JSON array/object found ...")` nor a
\* JSONDecodeError of json.loads(snippet)
ParseOK(r) ==
  IF ArrMatch(r) THEN SnippetIsArray(r) ELSE ObjMatch(r)

extract_json_array(r) ==
  IF ArrMatch(r) /\ SnippetIsArray(r)
    THEN [isList |-> TRUE, entries |-> r.entries]
    ELSE [isList |-> FALSE, entries |-> <<>>]

NoParsed == [isList |-> FALSE, entries |-> <<>>]

\* ------------------------------------------------------------ reconcile loop
\* mutant: the value is compared as it came
UpperOmitted(s) == s

Upper(s) ==
  IF s = "include" THEN "INCLUDE"
  ELSE IF s = "exclude" THEN "EXCLUDE"
  ELSE s

\* int(entry.get("index")) raises for None
IntOK(e) == e.index.kind = "int"
IntOf(e) == e.index.val

EntryTest(e) == Upper(IF e.TEST = NoKey THEN "" ELSE e.TEST)

\* mutant: REASON is read whatever TEST says
EntryReasonUngated(e) == IF e.REASON = NoKey THEN "" ELSE e.REASON

EntryReason(e) ==
  IF EntryTest(e) = "EXCLUDE"
    THEN (IF e.REASON = NoKey THEN "" ELSE e.REASON)
    ELSE ""

\* mutant: everything that is not EXCLUDE counts as INCLUDE
EntryVerdictFailOpen(e) ==
  [ TEST |-> IF EntryTest(e) = "EXCLUDE" THEN "EXCLUDE" ELSE "INCLUDE",
    REASON |-> EntryReason(e) ]

EntryVerdict(e) ==
  [ TEST |-> IF EntryTest(e) = "INCLUDE" THEN "INCLUDE" ELSE "EXCLUDE",
    REASON |-> EntryReason(e) ]

\* mutant: an index that has a verdict keeps it
StoreKeepFirst(res, idx, v) ==
  [ i \in (DOMAIN res) \cup {idx} |-> IF i \in DOMAIN res THEN res[i] ELSE v ]

\* mutant: the assignment replaces the whole map
StoreOnly(res, idx, v) == [ i \in {idx} |-> v ]

Store(res, idx, v) ==
  [ i \in (DOMAIN res) \cup {idx} |-> IF i = idx THEN v ELSE res[i] ]

\* mutant: the loop variable does not advance
NextStartSame(st, B) == st

\* range(0, len(rows), batch_size): the next value of start
NextStart(st, B) == st + B

RECURSIVE Reconcile(_, _)
Reconcile(res, es) ==
  IF es = << >> THEN [ok |-> TRUE, results |-> res]
  ELSE IF ~IntOK(Head(es)) THEN [ok |-> FALSE, results |-> res]
  ELSE Reconcile(Store(res, IntOf(Head(es)), EntryVerdict(Head(es))), Tail(es))

\* --------------------------------------------------------------- process
\* mutant: fail-closed default
DefaultExclude == [TEST |-> "EXCLUDE"]

DefaultResult == [TEST |-> "INCLUDE"]

\* mutant: the except branch drops what was collected
ResultsDropped(res) == EmptyMap

\* what get_filtered_data hands back from its except branch
ResultsOnError(res) == res

Merged(orig, res) ==
  [ orig |-> orig,
    TEST |-> res.TEST,
    REASON |-> IF "REASON" \in DOMAIN res THEN res.REASON ELSE NaN ]

Finalized(rs, res) ==
  [ k \in 1..Len(rs) |->
      Merged(rs[k], IF (k - 1) \in DOMAIN res THEN res[k - 1] ELSE DefaultResult) ]

DropTest(r) == [orig |-> r.orig, REASON |-> r.REASON]

\* mutant: the decision is not looked at
FilterNothing(rws, t) == [ k \in 1..Len(rws) |-> DropTest(rws[k]) ]

RECURSIVE Filter(_, _)
Filter(rws, t) ==
  IF rws = << >> THEN << >>
  ELSE IF Head(rws).TEST = t THEN << DropTest(Head(rws)) >> \o Filter(Tail(rws), t)
  ELSE Filter(Tail(rws), t)

\* mutant: the reason is counted as it is
ReasonLabelRaw(r) == r

\* fillna('UNKNOWN').replace({'': 'UNKNOWN'})
ReasonLabel(r) == IF r \in {NaN, None, ""} THEN "UNKNOWN" ELSE r

ReasonCounts(ex) ==
  LET labels == { ReasonLabel(ex[k].REASON) : k \in 1..Len(ex) }
  IN  [ l \in labels |->
          Cardinality({ k \in 1..Len(ex) : ReasonLabel(ex[k].REASON) = l }) ]

\* columns of out_df besides the original ones
ExtraColumns(rs, res) ==
  IF rs = << >> THEN {}
  ELSE {"TEST"} \cup (IF \E k \in 1..Len(rs) : (k - 1) \in DOMAIN res
                        THEN {"REASON"} ELSE {})

MakeReport(rs, res, outs) ==
  LET inc == Filter(outs, "INCLUDE")
      exc == Filter(outs, "EXCLUDE")
      cols == ExtraColumns(rs, res) \ {"TEST"}
  IN  [ written |-> TRUE,
        included |-> inc,
        excluded |-> exc,
        \* both frames only drop TEST; the files are written before the
        \* REASON column is added to `excluded` for the log
        included_columns |-> cols,
        excluded_columns |-> cols,
        total |-> Len(outs),
        included_count |-> Len(inc),
        excluded_count |-> Len(exc),
        reason_counts |-> ReasonCounts(exc) ]

\* ----------------------------------------------------- filter_papers_gemini
FileText == "text of screening-context.txt"
Literal == "literal context"

\* `if context is None and Path(DEFAULT_CONTEXT_FILE).exists()`; the else
\* branch raises SystemExit
ContextAccepted(ctx, exists) == ctx = None /\ exists

\* ------------------------------------------------ process: column detection
\* c.strip().lower()
LowerName(c) ==
  IF c = "Title" THEN "title"
  ELSE IF c = "Abstract" THEN "abstract"
  ELSE IF c = "Document title" THEN "document title"
  ELSE IF c = "DOI" THEN "doi"
  ELSE c

\* word in name (substring test on the names of ColumnSets)
Contains(name, word) ==
  \/ name = word
  \/ name = "document title" /\ word = "title"

ColumnMatches(c, word) ==
  LowerName(c) = word \/ Contains(LowerName(c), word)

\* next((c for c in df.columns if ...), None)
DetectColumn(cols, word) ==
  IF \E k \in 1..Len(cols) : ColumnMatches(cols[k], word)
    THEN cols[CHOOSE k \in 1..Len(cols) :
                /\ ColumnMatches(cols[k], word)
                /\ \A m \in 1..(k - 1) : ~ColumnMatches(cols[m], word)]
    ELSE None

\* ------------------------------------------------------------ merge_folder
\* key=lambda s: s.fillna("").astype(str).str.lower()
DOIKey(d) ==
  IF d = NaN THEN ""
  ELSE IF d = "10.1/A" THEN "10.1/a"
  ELSE IF d = "10.1/B" THEN "10.1/b"
  ELSE d

\* position of a key in the order of Python strings
KeyRank(key) ==
  IF key = "" THEN 0 ELSE IF key = "10.1/a" THEN 1 ELSE 2

\* rows of the merged frame: the DOI cell and the identity of the row
MergeRows(ds) == [ k \in 1..Len(ds) |-> [DOI |-> ds[k], id |-> k] ]

\* insert x behind every row whose key is not larger (mergesort is stable)
RECURSIVE InsertStable(_, _)
InsertStable(sorted, x) ==
  IF sorted = << >> THEN << x >>
  ELSE IF KeyRank(DOIKey(Head(sorted).DOI)) <= KeyRank(DOIKey(x.DOI))
         THEN << Head(sorted) >> \o InsertStable(Tail(sorted), x)
         ELSE << x >> \o sorted

\* merged.sort_values(by="DOI", key=..., na_position="last", kind="mergesort"):
\* the key is applied first, so no keyed value is missing any more
RECURSIVE SortByDOI(_)
SortByDOI(rws) ==
  IF rws = << >> THEN << >>
  ELSE InsertStable(SortByDOI(SubSeq(rws, 1, Len(rws) - 1)), rws[Len(rws)])

\* ------------------------------------------------------------------ Init
\* the screening script: filter_papers_gemini(folder, context, batch_size)
InitFilter ==
  /\ context \in {None, Literal}
  /\ ctx_file_exists \in BOOLEAN
  /\ input_exists \in BOOLEAN
  /\ columns \in ColumnSets
  /\ \E L \in 0..MaxRows : rows = Dataset(L, columns)
  /\ batch_size \in 1..MaxBatch
  /\ pc = "CONFIG"
  /\ parts = << >>

\* the cleaning script: merge_folder(folder)
InitMerge ==
  /\ context = None
  /\ ctx_file_exists = FALSE
  /\ input_exists = FALSE
  /\ columns = << >>
  /\ rows = << >>
  /\ batch_size = 1
  /\ pc = "MERGE"
  /\ \E ds \in SeqsUpTo(DOIVals, MaxMerged) : ds # << >> /\ parts = MergeRows(ds)

Init ==
  /\ InitFilter \/ InitMerge
  /\ title_col = None
  /\ abstract_col = None
  /\ merged = << >>
  /\ start = 0
  /\ items = << >>
  /\ sent = << >>
  /\ attempt = 0
  /\ errs = << >>
  /\ waits = << >>
  /\ raw = NoRaw
  /\ parsed = NoParsed
  /\ results = EmptyMap
  /\ failed = FALSE
  /\ raised = NoError
  /\ out_rows = << >>
  /\ report = NoReport

\* --------------------------------------------------------------- actions
\* for start in range(0, len(rows), batch_size): next batch, items, prompt
BuildPrompt ==
  /\ UNCHANGED << configVars, mergeVars >>
  /\ pc = "LOOP"
  /\ start < Len(rows)
  /\ items' = MakeItems(rows, start, batch_size, title_col, abstract_col)
  /\ sent' = Append(sent, build_prompt(items'))
  /\ attempt' = 0
  /\ errs' = << >>
  /\ waits' = << >>
  /\ raw' = NoRaw
  /\ parsed' = NoParsed
  /\ pc' = "CALL_MODEL"
  /\ UNCHANGED << rows, batch_size, start, results, failed, raised, out_rows, report >>

\* the range is exhausted: return results
LoopExit ==
  /\ UNCHANGED << configVars, mergeVars >>
  /\ pc = "LOOP"
  /\ start >= Len(rows)
  /\ pc' = "FINALIZE"
  /\ UNCHANGED << rows, batch_size, start, items, sent, attempt, errs, waits, raw,
                  parsed, results, failed, raised, out_rows, report >>

\* one iteration of the while loop whose generate_content call returns text:
\* call_model returns it and its locals are gone
AttemptOK ==
  /\ UNCHANGED << configVars, mergeVars >>
  /\ pc = "CALL_MODEL"
  /\ attempt < MAX_RETRIES
  /\ \E r \in RawVals : raw' = r
  /\ attempt' = 0
  /\ errs' = << >>
  /\ waits' = << >>
  /\ pc' = "PARSE"
  /\ UNCHANGED << rows, batch_size, start, items, sent,
                  parsed, results, failed, raised, out_rows, report >>

\* one iteration of the while loop whose generate_content call raises e
AttemptFail ==
  /\ UNCHANGED << configVars, mergeVars >>
  /\ pc = "CALL_MODEL"
  /\ attempt < MAX_RETRIES
  /\ \E e \in ErrorVals :
       /\ errs' = Append(errs, e)
       /\ waits' = waits \o SleepsFor(e, attempt)
       /\ attempt' = attempt + 1
       /\ IF RetriesExhausted(attempt')
            THEN \* raise e, caught by get_filtered_data: return results
                 /\ raised' = ModelError(RaisedError(errs'))
                 /\ failed' = TRUE
                 /\ results' = ResultsOnError(results)
                 /\ pc' = "FINALIZE"
            ELSE /\ pc' = "CALL_MODEL"
                 /\ UNCHANGED << raised, failed, results >>
  /\ UNCHANGED << rows, batch_size, start, items, sent, raw, parsed, out_rows, report >>

\* parsed = extract_json_array(raw); isinstance(parsed, list)
Parse ==
  /\ UNCHANGED << configVars, mergeVars >>
  /\ pc = "PARSE"
  /\ IF ParseOK(raw) /\ extract_json_array(raw).isList
       THEN /\ parsed' = extract_json_array(raw)
            /\ pc' = "RECONCILE"
            /\ UNCHANGED raised
       ELSE /\ raised' = Uncaught("ValueError")
            /\ pc' = "CRASHED"
            /\ UNCHANGED parsed
  /\ UNCHANGED << rows, batch_size, start, items, sent, attempt, errs, waits, raw,
                  results, failed, out_rows, report >>

\* for entry in parsed: ... results[idx] = ...
ReconcileBatch ==
  /\ UNCHANGED << configVars, mergeVars >>
  /\ pc = "RECONCILE"
  /\ LET r == Reconcile(results, parsed.entries)
     IN  /\ results' = r.results
         /\ IF r.ok
              THEN /\ start' = NextStart(start, batch_size)
                   /\ pc' = "LOOP"
                   /\ UNCHANGED raised
              ELSE /\ raised' = Uncaught("TypeError")
                   /\ pc' = "CRASHED"
                   /\ UNCHANGED start
  /\ UNCHANGED << rows, batch_size, items, sent, attempt, errs, waits, raw, parsed,
                  failed, out_rows, report >>

\* out_rows: every row gets a result, default INCLUDE
Finalize ==
  /\ UNCHANGED << configVars, mergeVars >>
  /\ pc = "FINALIZE"
  /\ out_rows' = Finalized(rows, results)
  /\ pc' = "WRITE_REPORT"
  /\ UNCHANGED << rows, batch_size, start, items, sent, attempt, errs, waits, raw,
                  parsed, results, failed, raised, report >>

\* included.csv, excluded.csv, log.txt; pd.DataFrame([]) has no columns, so
\* out_df['TEST'] raises KeyError when there are no rows
WriteReport ==
  /\ UNCHANGED << configVars, mergeVars >>
  /\ pc = "WRITE_REPORT"
  /\ IF out_rows = << >>
       THEN /\ raised' = Uncaught("KeyError")
            /\ pc' = "CRASHED"
            /\ UNCHANGED report
       ELSE /\ report' = MakeReport(rows, results, out_rows)
            /\ pc' = "DONE"
            /\ UNCHANGED raised
  /\ UNCHANGED << rows, batch_size, start, items, sent, attempt, errs, waits, raw,
                  parsed, results, failed, out_rows >>

\* filter_papers_gemini: context and input file checks, then process()
FilterPapersGemini ==
  /\ pc = "CONFIG"
  /\ IF ContextAccepted(context, ctx_file_exists)
       THEN /\ context' = FileText
            /\ IF input_exists
                 THEN pc' = "READ" /\ UNCHANGED raised
                 ELSE pc' = "ABORTED" /\ raised' = Uncaught("SystemExit")
       ELSE /\ pc' = "ABORTED"
            /\ raised' = Uncaught("SystemExit")
            /\ UNCHANGED context
  /\ UNCHANGED << rows, batch_size, start, items, sent, attempt, errs, waits, raw,
                  parsed, results, failed, out_rows, report,
                  ctx_file_exists, input_exists, columns, title_col, abstract_col,
                  mergeVars >>

\* process: read the dataset and find the title and abstract columns
DetectColumns ==
  /\ pc = "READ"
  /\ title_col' = DetectColumn(columns, "title")
  /\ abstract_col' = DetectColumn(columns, "abstract")
  /\ IF title_col' = None \/ abstract_col' = None
       THEN pc' = "ABORTED" /\ raised' = Uncaught("SystemExit")
       ELSE pc' = "LOOP" /\ UNCHANGED raised
  /\ UNCHANGED << rows, batch_size, start, items, sent, attempt, errs, waits, raw,
                  parsed, results, failed, out_rows, report,
                  context, ctx_file_exists, input_exists, columns, mergeVars >>

\* merge_folder: concatenate, sort by DOI, return
MergeFolder ==
  /\ pc = "MERGE"
  /\ merged' = SortByDOI(parts)
  /\ pc' = "MERGED"
  /\ UNCHANGED << rows, batch_size, start, items, sent, attempt, errs, waits, raw,
                  parsed, results, failed, raised, out_rows, report,
                  configVars, parts >>

Next ==
  \/ FilterPapersGemini
  \/ DetectColumns
  \/ MergeFolder
  \/ BuildPrompt
  \/ LoopExit
  \/ AttemptOK
  \/ AttemptFail
  \/ Parse
  \/ ReconcileBatch
  \/ Finalize
  \/ WriteReport

Spec == Init /\ [][Next]_vars

\* the interpreter keeps executing the single thread until it ends
FairSpec == Spec /\ WF_vars(Next)

\* ------------------------------------------------------------ properties
Finalizing == pc \in {"FINALIZE", "WRITE_REPORT", "DONE"}
Finalised == pc \in {"WRITE_REPORT", "DONE"}

\* the step is an iteration of call_model's loop whose request raised
FailStep == pc = "CALL_MODEL" /\ Len(errs') = Len(errs) + 1
LastErr == errs'[Len(errs')]
IsOther(e) == ~IsRateLimit(e) /\ ~IsUnavailable(e)

\* records whose index has no key in the ResultMap
Missing == { k \in 1..Len(rows) : (k - 1) \notin DOMAIN results }

EmptyReasons == {"", NaN}

CeilDiv(a, b) == (a + b - 1) \div b

RECURSIVE Flatten(_)
Flatten(ss) == IF ss = << >> THEN << >> ELSE Head(ss) \o Flatten(Tail(ss))

\* C1: when call_model raises for a batch, the ResultMap is returned as it
\* stood when that call began (the previous reconciliation), and afterwards no
\* prompt is built, no request is made and the map is not changed any more.
C1_FailureKeepsResults ==
  [][ /\ (pc = "CALL_MODEL" => results' = results)
      /\ (failed' /\ ~failed => pc' = "FINALIZE")
      /\ (failed => /\ results' = results
                    /\ sent' = sent
                    /\ errs' = errs
                    /\ raw' = raw
                    /\ pc' \in {"WRITE_REPORT", "DONE"}) ]_vars

\* C1 witness: a run finished after a failed call, with verdicts of an earlier
\* batch kept and a later batch never issued.
C1_Witness ==
  /\ pc = "DONE" /\ failed
  /\ results # EmptyMap
  /\ Len(sent) * batch_size < Len(rows)

\* C2: a response that cannot be parsed to a list is handled like a failed
\* model call: the run goes on to finalization with the ResultMap unchanged.
C2_ParseErrorCaught ==
  [][ (pc = "PARSE" /\ ~(ParseOK(raw) /\ extract_json_array(raw).isList))
        => (pc' = "FINALIZE" /\ results' = results) ]_vars

\* C3: once the configuration and the dataset are accepted, the run eventually
\* reaches DONE with the report written.
C3_EventuallyDone == (pc = "LOOP") ~> (pc = "DONE" /\ report.written)

\* C4: at finalization every record whose index is not a key of the ResultMap
\* is INCLUDE with an empty reason, and the report has it in the included set.
C4_MissingDefaultsToInclude ==
  /\ Finalised =>
       \A k \in Missing :
         /\ out_rows[k].orig = rows[k]
         /\ out_rows[k].TEST = "INCLUDE"
         /\ out_rows[k].REASON \in EmptyReasons
  /\ pc = "DONE" =>
       \A k \in Missing :
         /\ \E j \in 1..Len(report.included) :
              /\ report.included[j].orig = rows[k]
              /\ report.included[j].REASON \in EmptyReasons
         /\ \A j \in 1..Len(report.excluded) : report.excluded[j].orig # rows[k]

\* C4 witness: a completed run without a failed call whose responses left one
\* record without a verdict and excluded another.
C4_Witness ==
  /\ pc = "DONE" /\ ~failed
  /\ Missing # {}
  /\ report.excluded_count > 0

\* C5: after a failed call every record of the failed batch and of the batches
\* behind it is finalized as INCLUDE.
C5_FailedBatchesInclude ==
  (Finalised /\ failed) =>
    \A k \in 1..Len(rows) : (k - 1) >= start => out_rows[k].TEST = "INCLUDE"

\* C6: one invocation of call_model makes at most MAX_RETRIES requests; a
\* request that succeeds ends the invocation with its text; when the last
\* allowed request fails, the exception of that request is raised.
C6_AtMostThreeAttempts ==
  [][ /\ Len(errs') <= MAX_RETRIES
      /\ (FailStep => Len(errs) < MAX_RETRIES)
      /\ (pc = "CALL_MODEL" /\ ~FailStep =>
            /\ Len(errs) < MAX_RETRIES
            /\ raw' \in RawVals
            /\ pc' = "PARSE")
      /\ (FailStep =>
            /\ (failed' <=> Len(errs') = MAX_RETRIES)
            /\ (failed' => raised' = ModelError(LastErr))) ]_vars

\* C6 witness: three requests failed with different exceptions and the last
\* one was raised.
C6_Witness ==
  /\ failed /\ Len(errs) = MAX_RETRIES
  /\ errs[1] # errs[3]
  /\ raised.err = errs[3]

C8_BackoffFromBase ==
  [][ (FailStep /\ IsUnavailable(LastErr) /\ ~IsRateLimit(LastErr)) =>
        /\ waits' = Append(waits, 2 * Pow2(attempt))
        /\ waits'[Len(waits')] >= 2 ]_vars

\* C9: a rate-limit failure sleeps exactly 60, at every attempt and after any
\* earlier failures of the invocation.
C9_RateLimitWaitsSixty ==
  [][ (FailStep /\ IsRateLimit(LastErr)) =>
        waits' = Append(waits, 60) ]_vars

\* C9 witness: a rate limit hit at the second attempt, after an unavailable
\* failure, and slept 60.
C9_Witness ==
  /\ Len(errs) = 2
  /\ ~IsRateLimit(errs[1]) /\ IsUnavailable(errs[1])
  /\ IsRateLimit(errs[2])
  /\ Len(waits) = 2 /\ waits[2] = 60

\* C10: when no batch fails, the batches are ceil(L/B) in number, each has
\* between 1 and B records, their concatenation is the input in order, and
\* every record is sent with its 0-based position as index.
C10_Partition ==
  (Finalizing /\ ~failed) =>
    /\ Len(sent) = CeilDiv(Len(rows), batch_size)
    /\ \A j \in 1..Len(sent) : Len(sent[j]) >= 1 /\ Len(sent[j]) <= batch_size
    /\ Len(Flatten(sent)) = Len(rows)
    /\ \A k \in 1..Len(rows) :
         /\ Flatten(sent)[k].index = k - 1
         /\ Flatten(sent)[k].title = Str(rows[k][title_col])
         /\ Flatten(sent)[k].abstract = Str(rows[k][abstract_col])

\* C10 witness: a completed run over 3 records in batches of 2, the last
\* batch shorter.
C10_Witness ==
  /\ pc = "DONE" /\ ~failed
  /\ Len(rows) = 3 /\ batch_size = 2
  /\ Len(sent) = 2 /\ Len(sent[2]) = 1

\* the entries of the response reconciled last
Entries == parsed.entries

\* the batch of the response in `parsed` has been reconciled without an error
Reconciled == pc \in {"LOOP", "FINALIZE", "WRITE_REPORT", "DONE"} /\ parsed.isList

\* position of the last entry of es that names index i
LastPos(es, i) ==
  CHOOSE j \in 1..Len(es) :
    /\ IntOK(es[j]) /\ IntOf(es[j]) = i
    /\ \A m \in (j + 1)..Len(es) : ~(IntOK(es[m]) /\ IntOf(es[m]) = i)

\* position of the first entry of es that names index i
FirstPos(es, i) ==
  CHOOSE j \in 1..Len(es) :
    /\ IntOK(es[j]) /\ IntOf(es[j]) = i
    /\ \A m \in 1..(j - 1) : ~(IntOK(es[m]) /\ IntOf(es[m]) = i)

Named(es) == { IntOf(es[j]) : j \in { m \in 1..Len(es) : IntOK(es[m]) } }

\* indices of the records sent so far
SentIdx ==
  UNION { { sent[b][k].index : k \in 1..Len(sent[b]) } : b \in 1..Len(sent) }

\* C11: an entry with a malformed index is skipped; the other entries of the
\* response are stored and the run goes on with the next batch.
C11_MalformedEntrySkipped ==
  [][ (pc = "RECONCILE" /\ \E j \in 1..Len(Entries) : ~IntOK(Entries[j])) =>
        /\ pc' = "LOOP"
        /\ results' = Reconcile(results, SelectSeq(Entries, IntOK)).results ]_vars

C13_KeysWereSent ==
  \A i \in DOMAIN results : i \in SentIdx

\* the last entry of the reconciled response that names index i
LastEntry(i) == Entries[LastPos(Entries, i)]

\* C14: every stored verdict and every finalized row with decision INCLUDE has
\* an empty or absent reason, also when the entry carried a REASON.
C14_IncludeHasNoReason ==
  /\ \A i \in DOMAIN results :
       results[i].TEST = "INCLUDE" => results[i].REASON = ""
  /\ Finalised =>
       \A k \in 1..Len(out_rows) :
         out_rows[k].TEST = "INCLUDE" => out_rows[k].REASON \in EmptyReasons
  /\ pc = "DONE" =>
       \A j \in 1..Len(report.included) :
         report.included[j].REASON \in EmptyReasons

\* C14 witness: a completed run whose last response ended with an entry
\* TEST=INCLUDE that carried REASON=TOPIC, stored as INCLUDE.
C14_Witness ==
  /\ pc = "DONE" /\ Reconciled /\ Entries # << >>
  /\ Entries[Len(Entries)].TEST = "INCLUDE"
  /\ Entries[Len(Entries)].REASON = "TOPIC"
  /\ results[0].TEST = "INCLUDE"
  /\ out_rows[1].TEST = "INCLUDE"

AllowedReasons == {"TOPIC", "PUBLICATION_TYPE", "LANGUAGE", "", "UNKNOWN"}

\* C15: every finalized row with decision EXCLUDE has a reason of the fixed set.
C15_ExcludeReasonEnumerated ==
  Finalised =>
    \A k \in 1..Len(out_rows) :
      out_rows[k].TEST = "EXCLUDE" => out_rows[k].REASON \in AllowedReasons

\* C16 (as claimed): an entry with TEST "include" is stored as EXCLUDE.
C16_LowercaseIsExclude ==
  Reconciled =>
    \A i \in Named(Entries) :
      LastEntry(i).TEST = "include" => results[i].TEST = "EXCLUDE"

\* C16 (amended): an entry with TEST "include" is stored as INCLUDE with an
\* empty reason, because the value is upper-cased before it is compared.
C16_LowercaseIsInclude ==
  Reconciled =>
    \A i \in Named(Entries) :
      LastEntry(i).TEST = "include" =>
        results[i] = [TEST |-> "INCLUDE", REASON |-> ""]

\* C16 witness: the reconciled response ended with a TEST "include" entry for
\* index 0, and record 0 is finalized INCLUDE.
C16_Witness ==
  /\ Finalised /\ Reconciled /\ Entries # << >>
  /\ Entries[Len(Entries)].TEST = "include"
  /\ out_rows[1].TEST = "INCLUDE"

\* the TEST values whose upper-casing is "INCLUDE"
IncludeSpellings == {"INCLUDE", "include"}

\* C17: the stored decision is INCLUDE exactly when the upper-cased TEST value
\* is "INCLUDE", EXCLUDE for every other value (missing, other token), and
\* never anything else.
C17_DecisionFromUpperCasedTest ==
  /\ \A i \in DOMAIN results : results[i].TEST \in {"INCLUDE", "EXCLUDE"}
  /\ Reconciled =>
       \A i \in Named(Entries) :
         results[i].TEST =
           IF LastEntry(i).TEST \in IncludeSpellings THEN "INCLUDE" ELSE "EXCLUDE"

\* C17 witness: a response with an entry without TEST followed by one with the
\* token MAYBE was reconciled, and EXCLUDE is stored.
C17_Witness ==
  /\ Reconciled /\ Len(Entries) = 2
  /\ Entries[1].TEST = NoKey
  /\ Entries[2].TEST = "MAYBE"
  /\ results[0] = [TEST |-> "EXCLUDE", REASON |-> ""]

\* C18: applying the reconciled list of entries once more to the ResultMap it
\* produced leaves the map unchanged, and for every index the list names the
\* stored verdict is that of the last entry naming it.
C18_ReconcileIdempotent ==
  Reconciled =>
    /\ Reconcile(results, Entries).ok
    /\ Reconcile(results, Entries).results = results
    /\ \A i \in Named(Entries) : results[i] = EntryVerdict(LastEntry(i))

\* C18 witness: the first response named index 0 twice, EXCLUDE then INCLUDE,
\* and INCLUDE is stored.
C18_Witness ==
  /\ pc = "LOOP" /\ Reconciled /\ Len(sent) = 1
  /\ Len(Entries) = 2
  /\ IntOf(Entries[1]) = 0 /\ Entries[1].TEST = "EXCLUDE"
  /\ IntOf(Entries[2]) = 0 /\ Entries[2].TEST = "INCLUDE"
  /\ results[0].TEST = "INCLUDE"

IsIncluded(r) == r.TEST = "INCLUDE"
IsExcluded(r) == r.TEST = "EXCLUDE"
Origs(rws) == [ j \in 1..Len(rws) |-> rws[j].orig ]

\* C19: the report's included and excluded rows are disjoint, hold every input
\* record exactly once, in input order, each in the set of its finalized
\* decision, and included + excluded = total = number of input records.
C19_ReportPartition ==
  pc = "DONE" =>
    /\ Origs(out_rows) = rows
    /\ Origs(report.included) = Origs(SelectSeq(out_rows, IsIncluded))
    /\ Origs(report.excluded) = Origs(SelectSeq(out_rows, IsExcluded))
    /\ \A j \in 1..Len(report.included), m \in 1..Len(report.excluded) :
         report.included[j].orig # report.excluded[m].orig
    /\ \A k \in 1..Len(rows) :
         Cardinality({ j \in 1..Len(report.included) : report.included[j].orig = rows[k] })
         + Cardinality({ m \in 1..Len(report.excluded) : report.excluded[m].orig = rows[k] })
         = 1
    /\ report.included_count = Len(report.included)
    /\ report.excluded_count = Len(report.excluded)
    /\ report.included_count + report.excluded_count = report.total
    /\ report.total = Len(rows)

\* C19 witness: a report over 3 records with decisions INCLUDE, EXCLUDE,
\* INCLUDE.
C19_Witness ==
  /\ pc = "DONE" /\ Len(rows) = 3
  /\ out_rows[1].TEST = "INCLUDE"
  /\ out_rows[2].TEST = "EXCLUDE"
  /\ out_rows[3].TEST = "INCLUDE"
  /\ report.included_count = 2 /\ report.excluded_count = 1

\* C20: included.csv has exactly the original columns, excluded.csv the
\* original columns plus REASON, and the original values are unchanged.
C20_OutputColumns ==
  pc = "DONE" =>
    /\ report.included_columns = {}
    /\ report.excluded_columns = {"REASON"}
    /\ \A j \in 1..Len(report.included) :
         \E k \in 1..Len(rows) : report.included[j].orig = rows[k]
    /\ \A j \in 1..Len(report.excluded) :
         \E k \in 1..Len(rows) : report.excluded[j].orig = rows[k]

RECURSIVE SumOver(_, _)
SumOver(f, S) ==
  IF S = {} THEN 0
  ELSE LET x == CHOOSE y \in S : TRUE IN f[x] + SumOver(f, S \ {x})

CountOf(f, l) == IF l \in DOMAIN f THEN f[l] ELSE 0

ExcludedWith(R) ==
  Cardinality({ j \in 1..Len(report.excluded) : report.excluded[j].REASON \in R })

\* C21: the excluded-by-reason counts sum to the excluded count, every excluded
\* row is counted under its own reason, and the rows with an empty or missing
\* reason are counted under UNKNOWN.
C21_ReasonCounts ==
  pc = "DONE" =>
    LET rc == report.reason_counts
        reasons == { report.excluded[j].REASON : j \in 1..Len(report.excluded) }
    IN  /\ SumOver(rc, DOMAIN rc) = report.excluded_count
        /\ \A l \in reasons \ {"", NaN, "UNKNOWN"} :
             CountOf(rc, l) = ExcludedWith({l})
        /\ CountOf(rc, "UNKNOWN") = ExcludedWith({"", NaN, "UNKNOWN"})
        /\ "" \notin DOMAIN rc /\ NaN \notin DOMAIN rc

\* C21 witness: a report with one excluded row without a reason and one
\* excluded for TOPIC.
C21_Witness ==
  /\ pc = "DONE" /\ report.excluded_count = 2
  /\ report.excluded[1].REASON = ""
  /\ report.excluded[2].REASON = "TOPIC"
  /\ report.reason_counts["UNKNOWN"] = 1
  /\ report.reason_counts["TOPIC"] = 1

\* C22: filter_papers_gemini aborts, before any batch is built, exactly when
\* no context is available (no literal text and no context file) or the input
\* dataset is missing; with a literal context the run proceeds and uses it.
C22_ConfigErrorExactly ==
  [][ pc = "CONFIG" =>
        /\ (pc' = "ABORTED" <=>
              ((context = None /\ ~ctx_file_exists) \/ ~input_exists))
        /\ (pc' = "ABORTED" => sent' = << >>)
        /\ ((context = Literal /\ input_exists) =>
              (pc' = "READ" /\ context' = Literal)) ]_vars

\* C25: when the header has a column named exactly "title" (resp. "abstract",
\* case-insensitively), that column is the one detected, wherever it stands.
C25_ExactColumnPreferred ==
  /\ (title_col # None /\ \E k \in 1..Len(columns) : LowerName(columns[k]) = "title")
       => LowerName(title_col) = "title"
  /\ (abstract_col # None /\ \E k \in 1..Len(columns) : LowerName(columns[k]) = "abstract")
       => LowerName(abstract_col) = "abstract"

Missing_DOI(r) == r.DOI = NaN

\* C27: merge_folder returns the rows sorted by lower-cased DOI, every row
\* without a DOI behind all rows with one, rows with equal keys in their
\* original relative order.
C27_SortedMissingLast ==
  pc = "MERGED" =>
    /\ { merged[k].id : k \in 1..Len(merged) } = 1..Len(parts)
    /\ Len(merged) = Len(parts)
    /\ \A j, k \in 1..Len(merged) :
         j < k =>
           /\ (Missing_DOI(merged[j]) => Missing_DOI(merged[k]))
           /\ (~Missing_DOI(merged[j]) /\ ~Missing_DOI(merged[k])) =>
                KeyRank(DOIKey(merged[j].DOI)) <= KeyRank(DOIKey(merged[k].DOI))
           /\ (DOIKey(merged[j].DOI) = DOIKey(merged[k].DOI)
                 /\ Missing_DOI(merged[j]) = Missing_DOI(merged[k])) =>
                merged[j].id < merged[k].id

\* the step sends a request to the model
RequestStep == FailStep \/ (pc = "CALL_MODEL" /\ pc' = "PARSE")

LastBatch(ss) == ss[Len(ss)]

\* C23: batches are issued one at a time and in increasing start index; a
\* request is only made for the batch built last; the next batch is built
\* only after the previous one was called, parsed and reconciled.
C23_SequentialBatches ==
  [][ /\ (sent' # sent =>
            /\ pc = "LOOP" /\ pc' = "CALL_MODEL"
            /\ Len(sent') = Len(sent) + 1
            /\ SubSeq(sent', 1, Len(sent)) = sent
            /\ LastBatch(sent')[1].index = start
            /\ (sent # << >> =>
                  /\ raw # NoRaw /\ parsed.isList /\ ~failed
                  /\ \A k \in 1..Len(LastBatch(sent)) :
                       LastBatch(sent)[k].index < LastBatch(sent')[1].index))
      /\ (RequestStep =>
            /\ sent' = sent /\ sent # << >>
            /\ items = LastBatch(sent)
            /\ parsed = NoParsed) ]_vars

\* C23 witness: the second batch is being called after the first one was
\* reconciled.
C23_Witness ==
  /\ pc = "CALL_MODEL" /\ Len(sent) = 2 /\ attempt = 1
  /\ results # EmptyMap
  /\ sent[1][1].index = 0 /\ sent[2][1].index = 2

\* C24: the parser returns the entries of the first JSON array of the text,
\* whatever stands before it and behind its closing bracket; without an array
\* it falls back to the first {...}; without brackets and braces it fails.
C24_FirstArrayExtracted ==
  [][ pc = "PARSE" =>
        /\ ((raw.kind = "array" /\ ~HasBrackets(raw.pre)) =>
              (pc' = "RECONCILE" /\ parsed'.isList /\ parsed'.entries = raw.entries))
        /\ ((raw.kind = "object" /\ ~HasBrackets(raw.pre) /\ ~HasBrackets(raw.post)) =>
              (pc' = "CRASHED" /\ raised'.type = "ValueError"))
        /\ ((raw.kind = "nojson" /\ ~HasBrackets(raw.pre) /\ ~HasBrackets(raw.post)) =>
              (pc' = "CRASHED" /\ raised'.type = "ValueError")) ]_vars

\* the cell of record i (0-based) under column c, as the claim has it sent
SentCell(i, c) == IF rows[i + 1][c] = NaN THEN "" ELSE rows[i + 1][c]

\* C26: every payload has one {index, title, abstract} object per record of
\* its batch, in batch order, and a missing title or abstract is sent as "".
C26_PayloadFields ==
  \A b \in 1..Len(sent) :
    /\ Len(sent[b]) = Len(BatchRows(rows, sent[b][1].index, batch_size))
    /\ \A k \in 1..Len(sent[b]) :
         /\ sent[b][k].index = sent[b][1].index + k - 1
         /\ sent[b][k].title = SentCell(sent[b][k].index, title_col)
         /\ sent[b][k].abstract = SentCell(sent[b][k].index, abstract_col)

\* C28: call_model never sleeps after the failure of its last attempt, so an
\* invocation that raised has slept at most (attempts - 1) times.
C28_NoSleepBeforeRaise ==
  /\ failed => Len(waits) <= Len(errs) - 1
  /\ pc = "CALL_MODEL" => Len(waits) <= Len(errs)

====
